---------------------------- MODULE Spec2Model ----------------------------
(***************************************************************************)
(* A model of the Mars-Troughs core: the Trough model                      *)
(* (src/mars_troughs/trough.py) and the parameter estimator                *)
(* (src/mars_troughs/mcmc.py).                                             *)
(*                                                                         *)
(* Reals are modelled exactly as rationals [n, d] in lowest terms with     *)
(* d > 0; d = 0 stands for a non-finite float (inf or nan).                *)
(* MCMC.ln_likelihood passes one parameter dictionary to Trough.set_model; *)
(* the model unpacks it into (acc_params, lag_params, errorbar).           *)
(***************************************************************************)
EXTENDS Integers, Sequences, FiniteSets, TLC

(***************************************************************************)
(* Bounds of the model and constants of the program                        *)
(***************************************************************************)
\* number of samples of the insolation time axis (the data file is not modelled)
NT == 3
\* number of observed data points handed to get_nearest_points
ND == 2

\* trough.py:68  np.arange(16) + 1
NumLags == 16
\* trough.py:70  self.lags[-1] = 20
MaxLag == 20
\* mcmc.py:134  any(lag_t < 0)
LagLo == 0
\* mcmc.py:134  any(lag_t > 20)
LagHi == 20
\* trough.py:57  meters per pixel, horizontal
MetersPerPixelX == 500
\* trough.py:57  meters per pixel, vertical
MetersPerPixelY == 20

\* mcmc.py:128 and mcmc.py:136  the value returned for an excluded region
Sentinel == [float |-> "-1e99"]

(***************************************************************************)
(* Exact rational arithmetic standing for float arithmetic                 *)
(***************************************************************************)
Abs(x) == IF x < 0 THEN -x ELSE x

RECURSIVE GCD(_, _)
GCD(a, b) == IF b = 0 THEN a ELSE GCD(b, a % b)

NonFinite == [n |-> 0, d |-> 0]

Rat(n, d) ==
    IF d = 0 THEN NonFinite
    ELSE LET g == GCD(Abs(n), Abs(d))
             s == IF d < 0 THEN -1 ELSE 1
         IN  [n |-> s * (n \div g), d |-> s * (d \div g)]

RInt(k) == [n |-> k, d |-> 1]
IsFinite(a) == a.d # 0
RAdd(a, b) == IF a.d = 0 \/ b.d = 0 THEN NonFinite
              ELSE Rat(a.n * b.d + b.n * a.d, a.d * b.d)
RNeg(a) == [n |-> -a.n, d |-> a.d]
RSub(a, b) == RAdd(a, RNeg(b))
RMul(a, b) == IF a.d = 0 \/ b.d = 0 THEN NonFinite
              ELSE Rat(a.n * b.n, a.d * b.d)
\* a / b; a division by zero gives a non-finite value (numpy: inf, with a warning)
RDiv(a, b) == IF a.d = 0 \/ b.d = 0 \/ b.n = 0 THEN NonFinite
              ELSE Rat(a.n * b.d, a.d * b.n)
\* a < b; every comparison with a non-finite value (nan) is false
RLess(a, b) == a.d # 0 /\ b.d # 0 /\ a.n * b.d < b.n * a.d
RSq(a) == RMul(a, a)
REq(a, b) == a.d # 0 /\ b.d # 0 /\ a.n * b.d = b.n * a.d

(***************************************************************************)
(* Empirical data tables (read-only inputs)                                *)
(***************************************************************************)
\* self.ins_times: the insolation times, negated, increasing into the past
ins_times == [i \in 1..NT |-> i - 1]

\* a lag axis built from arange(16) without the + 1: 0, 1, ..., 14, 20
lags_from_zero == [i \in 1..NumLags |->
                      IF i = NumLags THEN MaxLag ELSE i - 1]

\* self.lags: arange(16) + 1, first entry lowered by one, last entry set to 20
lags == [i \in 1..NumLags |->
            IF i = NumLags THEN MaxLag ELSE IF i = 1 THEN (i - 1) ELSE i]

\* self.retreats[i][j]: retreat rate at lag lags[i] and time ins_times[j];
\* a thicker lag retreats less, and the thickest lag does not retreat at all
retreats(i, j) == 2 * (MaxLag - lags[i]) * j

\* the data attached to the Trough: self.ins_times, self.lags and the 2D
\* splines of the retreat table and of its square
VARIABLES self_ins_times, self_lags, ret_data_spline, re2_data_spline

dataVars == <<self_ins_times, self_lags, ret_data_spline, re2_data_spline>>

\* RBS(x, y, z): the 2D spline over the knots x and y, given by its knots
\* and its values z[i][j] at them
RBS(x, y, z) == [x |-> x, y |-> y, z |-> z]

(***************************************************************************)
(* Submodels (external collaborators of the Trough model)                  *)
(***************************************************************************)
\* lagModel.get_lag_at_t for the linear lag model: lag(t) = a + b t
get_lag_at_t(lp, times) == [i \in DOMAIN times |-> lp[1] + lp[2] * times[i]]

\* accuModel.get_yt: minus the integral of a constant accumulation rate
get_yt(ap, times) == [i \in DOMAIN times |-> RInt(-(ap[1] * times[i]))]

\* accuModel.get_xt: x(t) = -cot y(t) + csc (R(t) - R(0)), with R the
\* antiderivative of the retreat rate
get_xt(ap, times, int_spline, cot_angle, csc_angle) ==
    [i \in DOMAIN times |->
        RAdd(RNeg(RMul(cot_angle, get_yt(ap, times)[i])),
             RMul(csc_angle, RInt(int_spline[i] - int_spline[1])))]

(***************************************************************************)
(* Splines                                                                 *)
(***************************************************************************)
\* the interval of the lag axis that holds lag l (l already within the axis)
LagInterval(l) ==
    CHOOSE k \in 1..(NumLags - 1) :
        /\ ret_data_spline.x[k] <= l
        /\ l <= ret_data_spline.x[k + 1]

\* self.ret_data_spline.ev(l, ins_times[j]): interpolation of the retreat
\* table along the lag axis; an argument outside the axis is evaluated at
\* the nearest end of the axis
ret_data_spline_ev(l, j) ==
    LET x  == ret_data_spline.x
        z  == ret_data_spline.z
        c  == IF l < x[1] THEN x[1]
              ELSE IF l > x[NumLags] THEN x[NumLags] ELSE l
        k  == LagInterval(c)
        l0 == x[k]
        l1 == x[k + 1]
    IN  (z[k][j] * (l1 - c) + z[k + 1][j] * (c - l0)) \div (l1 - l0)

\* Trough.get_retreat_model_t(lag_t, time)
get_retreat_model_t(lag_t, times) ==
    [j \in DOMAIN times |-> ret_data_spline_ev(lag_t[j], j)]

\* IUS(self.ins_times, values): the interpolating spline, given by its
\* values at the knots
IUS(times, values) == [i \in DOMAIN times |-> values[i]]

\* spline.antiderivative(): the integral from the first knot to each knot
RECURSIVE antiderivative(_, _, _)
antiderivative(times, spline, i) ==
    IF i = 1 THEN 0
    ELSE antiderivative(times, spline, i - 1)
         + ((spline[i - 1] + spline[i]) * (times[i] - times[i - 1])) \div 2

antiderivative_spline(times, spline) ==
    [i \in DOMAIN times |-> antiderivative(times, spline, i)]

(***************************************************************************)
(* Trigonometry of the slope angle                                         *)
(***************************************************************************)
\* the slope angles (degrees) a caller passes; 37 and 217 are the angles of
\* the 3-4-5 triangle, whose sine and cosine are rational
AngleValues == {0, 37, 90, 217}

\* value * np.pi / 180.0: radians, as a rational multiple of pi
deg2rad(value) == Rat(value, 180)
\* self._angle * 180.0 / np.pi
rad2deg(a) == RMul(a, RInt(180))

np_sin(a) ==
    LET deg == rad2deg(a).n
    IN  CASE deg = 0   -> Rat(0, 5)
          [] deg = 37  -> Rat(3, 5)
          [] deg = 90  -> Rat(5, 5)
          [] deg = 217 -> Rat(-3, 5)

np_cos(a) ==
    LET deg == rad2deg(a).n
    IN  CASE deg = 0   -> Rat(5, 5)
          [] deg = 37  -> Rat(4, 5)
          [] deg = 90  -> Rat(0, 5)
          [] deg = 217 -> Rat(-4, 5)

(***************************************************************************)
(* Inputs                                                                  *)
(***************************************************************************)
\* the parameter sets a caller, the optimizer or the sampler proposes:
\* errorbar in pixels, the rate of the accumulation submodel, and (a, b) of
\* the linear lag submodel.  The lags stay in range (5..), exceed 20 at the
\* last time (19..), start below 0 (-1..), or stay at the thickest lag (20)
ParamDicts ==
    { [errorbar |-> 1,  acc |-> <<1>>, lag |-> <<5, 1>>],
      [errorbar |-> 1,  acc |-> <<0>>, lag |-> <<5, 1>>],
      [errorbar |-> 1,  acc |-> <<1>>, lag |-> <<19, 1>>],
      [errorbar |-> 1,  acc |-> <<1>>, lag |-> <<-1, 1>>],
      [errorbar |-> 1,  acc |-> <<0>>, lag |-> <<20, 0>>],
      [errorbar |-> -1, acc |-> <<1>>, lag |-> <<5, 1>>] }

\* observed data handed to get_nearest_points and lnlikelihood; (21, -22) is
\* at the same distance of two points of a trajectory
DataSets ==
    { [x |-> [i \in 1..ND |-> 40 * (i - 1)], y |-> [i \in 1..ND |-> -(i - 1)]],
      [x |-> [i \in 1..ND |-> IF i = 1 THEN 21 ELSE 100],
       y |-> [i \in 1..ND |-> IF i = 1 THEN -22 ELSE -i]] }

\* MCMC.xdata, MCMC.ydata: the observed trough migration path
McmcData == [x |-> [i \in 1..ND |-> 40 * (i - 1)], y |-> [i \in 1..ND |-> -(i - 1)]]

Range(f) == {f[i] : i \in DOMAIN f}

(***************************************************************************)
(* State                                                                   *)
(***************************************************************************)
VARIABLES
    \* Trough
    errorbar, acc_params, lag_params, lag_model_t, retreat_model_t,
    lag_model_t_spline, retreat_model_t_spline, int_retreat_model_t_spline,
    _angle, _csc, _cot,
    \* history: the constructor's arguments and the values it computed, and
    \* whether the splines have since been rebuilt to other values
    ctor, moved,
    \* history of the last operation: the methods it ran (outermost first),
    \* its argument, the lags it evaluated the retreat spline at, its result
    calls, lastArg, retEvalLags, out,
    \* MCMC sampling loop
    pc, maxSteps, subIter, iteration, index, autocorr, old_tau, tau,
    converged, attrs, chk,
    \* MCMC ensemble: the optimizer's result and the walkers' starting points
    optParams, initParams

modelVars == <<errorbar, acc_params, lag_params, lag_model_t, retreat_model_t>>
splineVars == <<lag_model_t_spline, retreat_model_t_spline,
                int_retreat_model_t_spline>>
angleVars == <<_angle, _csc, _cot>>
troughVars == <<modelVars, splineVars, angleVars, dataVars>>
histVars == <<calls, lastArg, retEvalLags, out>>
ensVars == <<optParams, initParams>>
loopVars == <<pc, maxSteps, subIter, iteration, index, autocorr, old_tau, tau,
              converged, attrs, chk, ensVars>>
vars == <<troughVars, ctor, moved, histVars, loopVars>>

None == [none |-> TRUE]

(***************************************************************************)
(* Trough: the slope angle                                                 *)
(***************************************************************************)
\* 1.0 / np.sin(self._angle)
csc_of(a) == RDiv(RInt(1), np_sin(a))
\* np.cos(self._angle) * self._csc
cot_of(a, csc) == RMul(np_cos(a), csc)

\* the angle property: the slope angle in degrees
angle == rad2deg(_angle)
\* the csc_angle property
csc_angle == _csc
\* the cot_angle property
cot_angle == _cot

\* a setter that forgets the cotangent
angle_setter_stale_cot(value) ==
    /\ _angle' = deg2rad(value)
    /\ _csc' = csc_of(_angle')
    /\ _cot' = _cot

\* the angle setter
angle_setter(value) ==
    /\ _angle' = deg2rad(value)
    /\ _csc' = csc_of(_angle')
    /\ _cot' = cot_of(_angle', _csc')

(***************************************************************************)
(* Trough: parameters and splines                                          *)
(***************************************************************************)
\* a set_model that updates the retreat rate before the lag: the retreat
\* rate is that of the lag of the previous parameters
set_model_retreat_first(acc, lag, e) ==
    /\ errorbar' = e
    /\ acc_params' = acc
    /\ lag_params' = lag
    /\ retreat_model_t' = get_retreat_model_t(lag_model_t, self_ins_times)
    /\ lag_model_t' = get_lag_at_t(lag_params', self_ins_times)

\* Trough.set_model
set_model(acc, lag, e) ==
    /\ errorbar' = e
    /\ acc_params' = acc
    /\ lag_params' = lag
    /\ lag_model_t' = get_lag_at_t(lag_params', self_ins_times)
    /\ retreat_model_t' = get_retreat_model_t(lag_model_t', self_ins_times)

\* Trough.compute_model_splines
compute_model_splines ==
    /\ lag_model_t_spline' = IUS(self_ins_times, lag_model_t)
    /\ retreat_model_t_spline' = IUS(self_ins_times, retreat_model_t)
    /\ int_retreat_model_t_spline' =
           antiderivative_spline(self_ins_times, retreat_model_t_spline')

(***************************************************************************)
(* Trough: queries                                                         *)
(***************************************************************************)
\* the trajectory at the default times of a model with accumulation
\* parameters ap, retreat antiderivative int_spline and slope factors cot, csc
trajectory_of(ap, int_spline, cot, csc) ==
    [x |-> get_xt(ap, self_ins_times, int_spline, cot, csc),
     y |-> get_yt(ap, self_ins_times)]

\* Trough.get_trajectory() at the default times
get_trajectory ==
    trajectory_of(acc_params, int_retreat_model_t_spline, cot_angle, csc_angle)

\* Trough._L2_distance
_L2_distance(x1, x2, y1, y2) ==
    RAdd(RSq(RSub(x1, x2)), RSq(RSub(y1, y2)))

\* an argmin scan that also moves on to an equal value: the last minimum
RECURSIVE argmin_scan_last(_, _, _)
argmin_scan_last(dist, i, best) ==
    IF i > Len(dist) THEN best
    ELSE argmin_scan_last(dist, i + 1,
             IF ~IsFinite(dist[best]) THEN best
             ELSE IF ~IsFinite(dist[i]) \/ ~RLess(dist[best], dist[i])
                  THEN i ELSE best)

\* the scan of np.argmin from index i on, best being the index kept so far:
\* a strictly smaller value replaces it, and a nan ends the search
RECURSIVE argmin_scan(_, _, _)
argmin_scan(dist, i, best) ==
    IF i > Len(dist) THEN best
    ELSE argmin_scan(dist, i + 1,
             IF ~IsFinite(dist[best]) THEN best
             ELSE IF ~IsFinite(dist[i]) \/ RLess(dist[i], dist[best])
                  THEN i ELSE best)

\* np.argmin(dist)
np_argmin(dist) == argmin_scan(dist, 2, 1)

\* the distances of data point i to every point of the trajectory tr
distances(tr, d, i) ==
    [k \in DOMAIN tr.x |->
        _L2_distance(tr.x[k], RInt(d.x[i]), tr.y[k], RInt(d.y[i]))]

\* the points of trajectory tr nearest to the data d
nearest_of(tr, d) ==
    LET ind == [i \in DOMAIN d.x |-> np_argmin(distances(tr, d, i))]
    IN  [x |-> [i \in DOMAIN d.x |-> tr.x[ind[i]]],
         y |-> [i \in DOMAIN d.x |-> tr.y[ind[i]]]]

\* Trough.get_nearest_points(x_data, y_data)
get_nearest_points(d) == nearest_of(get_trajectory, d)

RECURSIVE RSum(_, _)
RSum(f, i) == IF i = 0 THEN RInt(0) ELSE RAdd(RSum(f, i - 1), f[i])

\* the log-likelihood of data d given the matched points m and errorbar e:
\*   -0.5 (sx / xvar + sy / yvar) - 0.5 n log(xvar yvar), given by its parts
lnlikelihood_of(e, m, d) ==
    LET n == Len(d.x)
        dx2 == [i \in 1..n |-> RSq(RSub(RInt(d.x[i]), m.x[i]))]
        dy2 == [i \in 1..n |-> RSq(RSub(RInt(d.y[i]), m.y[i]))]
    IN  [sx |-> RSum(dx2, n),
         sy |-> RSum(dy2, n),
         xvar |-> (e * MetersPerPixelX) * (e * MetersPerPixelX),
         yvar |-> (e * MetersPerPixelY) * (e * MetersPerPixelY),
         n |-> n]

\* Trough.lnlikelihood(x_data, y_data)
lnlikelihood(d) == lnlikelihood_of(errorbar, get_nearest_points(d), d)

(***************************************************************************)
(* Parameter estimator: the likelihood function                            *)
(***************************************************************************)
\* a range check that forgets the upper end of the table
LagOutOfRange_lower_only(lag_t) ==
    \E i \in DOMAIN lag_t : lag_t[i] < LagLo

\* any(lag_t < 0) or any(lag_t > 20)
LagOutOfRange(lag_t) ==
    (\E i \in DOMAIN lag_t : lag_t[i] < LagLo)
        \/ (\E i \in DOMAIN lag_t : lag_t[i] > LagHi)

\* MCMC.ln_likelihood(params)
ln_likelihood(p) ==
    IF p.errorbar < 0
    THEN /\ out' = Sentinel
         /\ calls' = <<"ln_likelihood">>
         /\ retEvalLags' = {}
         /\ UNCHANGED troughVars
    ELSE /\ set_model(p.acc, p.lag, p.errorbar)
         /\ retEvalLags' = Range(lag_model_t')
         /\ UNCHANGED <<splineVars, angleVars, dataVars>>
         /\ IF LagOutOfRange(get_lag_at_t(lag_params', ins_times))
            THEN /\ out' = Sentinel
                 /\ calls' = <<"ln_likelihood", "set_model">>
            ELSE /\ out' = lnlikelihood_of(p.errorbar,
                            nearest_of(trajectory_of(p.acc,
                                int_retreat_model_t_spline, cot_angle,
                                csc_angle), McmcData), McmcData)
                 /\ calls' = <<"ln_likelihood", "set_model", "lnlikelihood",
                               "get_nearest_points", "get_trajectory">>

(***************************************************************************)
(* Initial state: Trough.__init__                                          *)
(***************************************************************************)
\* the attributes MCMC.__init__ assigns on the estimator
McmcAttrs ==
    {"maxSteps", "subIter", "acc_model_name", "lag_model_name", "xdata",
     "ydata", "times", "tr", "parameter_names", "ndim", "nwalkers", "subdir",
     "filename", "optParams", "initParams", "sampler"}

\* a local variable that has not been assigned yet
Undefined == "undefined"
\* no autocorrelation times: tau before the first check
NoTau == <<>>
\* no convergence check has run yet
NoCheck == [it |-> 0, tau |-> NoTau, prev |-> NoTau]

\* the sampling loop has not started
LoopIdle ==
    /\ pc = "setup"
    /\ maxSteps = 0
    /\ subIter = 1
    /\ iteration = 0
    /\ index = 0
    /\ autocorr = <<>>
    /\ old_tau = NoTau
    /\ tau = NoTau
    /\ converged = Undefined
    /\ attrs = {"maxSteps", "subIter", "acc_model_name", "lag_model_name",
                "xdata", "ydata", "times", "tr"}
    /\ chk = NoCheck
    /\ optParams = <<>>
    /\ initParams = <<>>

\* Trough.__init__(acc, lag, ..., e, v)
TroughInit(acc, lag, e, v) ==
    /\ self_ins_times = ins_times
    /\ self_lags = lags
    /\ ret_data_spline =
           RBS(self_lags, self_ins_times,
               [i \in 1..NumLags |-> [j \in 1..NT |-> retreats(i, j)]])
    /\ re2_data_spline =
           RBS(self_lags, self_ins_times,
               [i \in 1..NumLags |-> [j \in 1..NT |-> retreats(i, j) * retreats(i, j)]])
    /\ _angle = deg2rad(v)
    /\ _csc = csc_of(_angle)
    /\ _cot = cot_of(_angle, _csc)
    /\ errorbar = e
    /\ acc_params = acc
    /\ lag_params = lag
    /\ lag_model_t = get_lag_at_t(lag_params, self_ins_times)
    /\ retreat_model_t = get_retreat_model_t(lag_model_t, self_ins_times)
    /\ lag_model_t_spline = IUS(self_ins_times, lag_model_t)
    /\ retreat_model_t_spline = IUS(self_ins_times, retreat_model_t)
    /\ int_retreat_model_t_spline =
           antiderivative_spline(self_ins_times, retreat_model_t_spline)
    /\ ctor = [acc |-> acc, lag |-> lag, errorbar |-> e,
               lag_model_t |-> lag_model_t,
               retreat_model_t |-> retreat_model_t,
               lag_model_t_spline |-> lag_model_t_spline,
               retreat_model_t_spline |-> retreat_model_t_spline,
               int_retreat_model_t_spline |-> int_retreat_model_t_spline]
    /\ calls = <<"__init__">>
    /\ lastArg = [errorbar |-> e, acc |-> acc, lag |-> lag]
    /\ retEvalLags = Range(lag_model_t)
    /\ out = None
    /\ moved = FALSE

Init ==
    /\ \E p \in ParamDicts, v \in AngleValues :
           TroughInit(p.acc, p.lag, p.errorbar, v)
    /\ LoopIdle

(***************************************************************************)
(* Steps of the Trough model and of the likelihood function                *)
(***************************************************************************)
SetAngle(v) ==
    /\ angle_setter(v)
    /\ calls' = <<"angle.setter">>
    /\ lastArg' = [value |-> v]
    /\ retEvalLags' = {}
    /\ out' = None
    /\ UNCHANGED <<modelVars, splineVars, dataVars, ctor, moved, loopVars>>

\* a set_model that also rebuilds the 1D splines from the new model
SetModel_rebuilding(p) ==
    /\ set_model(p.acc, p.lag, p.errorbar)
    /\ calls' = <<"set_model">>
    /\ lastArg' = p
    /\ retEvalLags' = Range(lag_model_t')
    /\ out' = None
    /\ lag_model_t_spline' = IUS(self_ins_times, lag_model_t')
    /\ retreat_model_t_spline' = IUS(self_ins_times, retreat_model_t')
    /\ int_retreat_model_t_spline' =
           antiderivative_spline(self_ins_times, retreat_model_t_spline')
    /\ UNCHANGED <<angleVars, dataVars, ctor, moved, loopVars>>

SetModel(p) ==
    /\ set_model(p.acc, p.lag, p.errorbar)
    /\ calls' = <<"set_model">>
    /\ lastArg' = p
    /\ retEvalLags' = Range(lag_model_t')
    /\ out' = None
    /\ UNCHANGED <<splineVars, angleVars, dataVars, ctor, moved, loopVars>>

ComputeModelSplines ==
    /\ compute_model_splines
    /\ calls' = <<"compute_model_splines">>
    /\ lastArg' = None
    /\ retEvalLags' = {}
    /\ out' = None
    /\ moved' = (moved \/ int_retreat_model_t_spline'
                              # ctor.int_retreat_model_t_spline)
    /\ UNCHANGED <<modelVars, angleVars, dataVars, ctor, loopVars>>

GetTrajectory ==
    /\ out' = get_trajectory
    /\ calls' = <<"get_trajectory">>
    /\ lastArg' = None
    /\ retEvalLags' = {}
    /\ UNCHANGED <<troughVars, ctor, moved, loopVars>>

\* a get_nearest_points that rebuilds the splines on the way
GetNearestPoints_rebuilding(d) ==
    /\ out' = get_nearest_points(d)
    /\ calls' = <<"get_nearest_points", "get_trajectory">>
    /\ lastArg' = d
    /\ retEvalLags' = {}
    /\ compute_model_splines
    /\ UNCHANGED <<modelVars, angleVars, dataVars, ctor, moved, loopVars>>

GetNearestPoints(d) ==
    /\ out' = get_nearest_points(d)
    /\ calls' = <<"get_nearest_points", "get_trajectory">>
    /\ lastArg' = d
    /\ retEvalLags' = {}
    /\ UNCHANGED <<troughVars, ctor, moved, loopVars>>

LnLikelihood(d) ==
    /\ out' = lnlikelihood(d)
    /\ calls' = <<"lnlikelihood", "get_nearest_points", "get_trajectory">>
    /\ lastArg' = d
    /\ retEvalLags' = {}
    /\ UNCHANGED <<troughVars, ctor, moved, loopVars>>

McmcLnLikelihood(p) ==
    /\ ln_likelihood(p)
    /\ lastArg' = p
    /\ UNCHANGED <<ctor, moved, loopVars>>

Next ==
    \/ \E v \in AngleValues : SetAngle(v)
    \/ \E p \in ParamDicts : SetModel(p)
    \/ ComputeModelSplines
    \/ GetTrajectory
    \/ \E d \in DataSets : GetNearestPoints(d)
    \/ \E d \in DataSets : LnLikelihood(d)
    \/ \E p \in ParamDicts : McmcLnLikelihood(p)

Spec == Init /\ [][Next]_vars

(***************************************************************************)
(* Properties of the Trough model and of the likelihood function           *)
(***************************************************************************)
\* the 1D splines are those of the lag and retreat models currently stored
SplinesCurrent ==
    /\ lag_model_t_spline = IUS(ins_times, lag_model_t)
    /\ retreat_model_t_spline = IUS(ins_times, retreat_model_t)
    /\ int_retreat_model_t_spline =
           antiderivative_spline(ins_times, IUS(ins_times, retreat_model_t))

Ran(method) == \E i \in DOMAIN calls : calls[i] = method

\* C1: whenever an operation has evaluated the 1D splines through
\* get_trajectory (directly, or from get_nearest_points, lnlikelihood or
\* MCMC.ln_likelihood), the splines were those of the parameters stored
C1_NoStaleSplineEvaluated ==
    Ran("get_trajectory") => SplinesCurrent

\* C2: a likelihood evaluation of the estimator never evaluates the 2D
\* retreat spline at a lag outside [0, 20]
C2_RetreatSplineWithinTable ==
    calls[1] = "ln_likelihood" =>
        \A l \in retEvalLags : LagLo <= l /\ l <= LagHi

\* the parameter set p is outside the domain: a negative errorbar, or a lag
\* below 0 or above 20 at one of the estimator's times
OutsideDomain(p) ==
    \/ p.errorbar < 0
    \/ \E i \in 1..NT : LET l == p.lag[1] + p.lag[2] * ins_times[i]
                        IN  l < 0 \/ l > 20

C6_RoundTrip ==
    (/\ calls = <<"compute_model_splines">>
     /\ acc_params = ctor.acc
     /\ lag_params = ctor.lag
     /\ errorbar = ctor.errorbar) =>
        /\ lag_model_t = ctor.lag_model_t
        /\ retreat_model_t = ctor.retreat_model_t
        /\ lag_model_t_spline = ctor.lag_model_t_spline
        /\ retreat_model_t_spline = ctor.retreat_model_t_spline
        /\ int_retreat_model_t_spline = ctor.int_retreat_model_t_spline

\* C6 witness: the splines were rebuilt to other values in between, and the
\* constructor's parameters are stored again and the splines recomputed
C6_Witness ==
    /\ calls = <<"compute_model_splines">>
    /\ moved
    /\ acc_params = ctor.acc
    /\ lag_params = ctor.lag
    /\ errorbar = ctor.errorbar

\* the trajectory currently synthesized has finite coordinates
TrajectoryFinite ==
    LET tr == get_trajectory
    IN  \A k \in 1..NT : IsFinite(tr.x[k]) /\ IsFinite(tr.y[k])

\* the squared distances of the data points of d to the points of the
\* trajectory: DistTo(d)[i][k] for data point i and trajectory point k
DistTo(d) ==
    LET tr == get_trajectory
    IN  [i \in 1..ND |-> [k \in 1..NT |->
            _L2_distance(tr.x[k], RInt(d.x[i]), tr.y[k], RInt(d.y[i]))]]

C8_ReadOnlyIdempotent ==
    [][(calls'[1] \in {"get_nearest_points", "lnlikelihood"}) =>
          /\ UNCHANGED troughVars
          /\ (calls = calls' /\ lastArg = lastArg') => out' = out]_vars

\* C8 witness: lnlikelihood has run on a model whose splines are not those
\* of its parameters
C8_Witness ==
    /\ calls[1] = "lnlikelihood"
    /\ ~SplinesCurrent
    /\ out.n = ND

\* C9: the slope angle is strictly between 0 and 180 degrees, so its sine
\* is not zero and the cosecant and the cotangent are finite
C9_AngleInRange ==
    /\ RLess(RInt(0), angle)
    /\ RLess(angle, RInt(180))
    /\ np_sin(_angle).n # 0
    /\ IsFinite(csc_angle)
    /\ IsFinite(cot_angle)

\* the slope angle is strictly between 0 and 180 degrees
AngleValid == RLess(RInt(0), angle) /\ RLess(angle, RInt(180))

\* C10: for an angle in (0, 180), csc_angle is 1/sin and cot_angle is cos/sin
\* of the angle stored, and a trajectory is computed with these values
C10_TrigConsistent ==
    AngleValid =>
        /\ REq(csc_angle, RDiv(RInt(1), np_sin(_angle)))
        /\ REq(cot_angle, RDiv(np_cos(_angle), np_sin(_angle)))
        /\ calls = <<"get_trajectory">> =>
               out.x = get_xt(acc_params, ins_times, int_retreat_model_t_spline,
                              RDiv(np_cos(_angle), np_sin(_angle)),
                              RDiv(RInt(1), np_sin(_angle)))

\* C10 witness: the setter has assigned 37 degrees, an angle in (0, 180), and
\* the cotangent is now 4/3
C10_Witness ==
    /\ calls = <<"angle.setter">>
    /\ AngleValid
    /\ lastArg = [value |-> 37]
    /\ rad2deg(_angle) = RInt(37)
    /\ _cot = Rat(4, 3)

\* the lag axis has 16 points, starts at 0, ends at 20 and increases strictly
LagAxisShape ==
    /\ DOMAIN self_lags = 1..16
    /\ self_lags[1] = 0
    /\ self_lags[16] = 20
    /\ \A i \in 1..15 : self_lags[i] < self_lags[i + 1]

\* C11 as stated: the lag axis is 0, 1, 2, ..., 15 with the last point set to
\* 20, every interior value being equal to its index (counted from 0), and
\* it never changes after construction
C11_LagAxisAsStated ==
    /\ LagAxisShape
    /\ \A i \in 2..15 : self_lags[i] = i - 1

\* C11: in every state the lag axis is the 16-point sequence 0, 2, 3, ...,
\* 15, 20: strictly increasing from 0 to 20, every interior value being one
\* more than its index (counted from 0); no operation changes it
C11_LagAxis ==
    /\ LagAxisShape
    /\ \A i \in 2..15 : self_lags[i] = (i - 1) + 1
    /\ ret_data_spline.x = self_lags

\* C11 witness: set_model has replaced the constructor's lag parameters and
\* the axis still goes from 0 straight to 2
C11_Witness ==
    /\ calls = <<"set_model">>
    /\ lag_params # ctor.lag
    /\ self_lags[1] = 0
    /\ self_lags[2] = 2

\* C14: a step that runs set_model (alone or inside MCMC.ln_likelihood)
\* stores the errorbar and the parameters it was given, recomputes
\* lag_model_t and retreat_model_t from them, and leaves the three 1D
\* splines, the 2D splines, the lag axis, the time axis and the angle as
\* they were; a step that changes a 1D spline is compute_model_splines
C14_SetModelFrame ==
    [][/\ (\E i \in DOMAIN calls' : calls'[i] = "set_model") =>
              /\ errorbar' = lastArg'.errorbar
              /\ acc_params' = lastArg'.acc
              /\ lag_params' = lastArg'.lag
              /\ lag_model_t' = [i \in 1..NT |->
                     lastArg'.lag[1] + lastArg'.lag[2] * self_ins_times[i]]
              /\ retreat_model_t' =
                     get_retreat_model_t(lag_model_t', self_ins_times)
              /\ UNCHANGED <<lag_model_t_spline, retreat_model_t_spline,
                             int_retreat_model_t_spline>>
              /\ UNCHANGED <<ret_data_spline, re2_data_spline, self_lags,
                             self_ins_times>>
              /\ UNCHANGED <<_angle, _csc, _cot>>
       /\ (<<lag_model_t_spline, retreat_model_t_spline,
             int_retreat_model_t_spline>>' #
           <<lag_model_t_spline, retreat_model_t_spline,
             int_retreat_model_t_spline>>)
              => calls' = <<"compute_model_splines">>]_vars

\* C14 witness: set_model has stored a retreat rate other than the
\* constructor's while the splines are still the constructor's
C14_Witness ==
    /\ calls = <<"set_model">>
    /\ ~moved
    /\ retreat_model_t # ctor.retreat_model_t
    /\ lag_model_t # ctor.lag_model_t
    /\ retreat_model_t_spline = ctor.retreat_model_t_spline
    /\ int_retreat_model_t_spline = ctor.int_retreat_model_t_spline

(***************************************************************************)
(* Parameter estimator: the sampling loop of MCMC.__init__                 *)
(***************************************************************************)
\* largest iteration budget explored
MaxSteps == 6
\* largest sub-interval between convergence checks explored
MaxSubIter == 3

\* mcmc.py:110  tau * 50 < iteration
TauFactor == 50

\* self.parameter_names: the errorbar, then the parameters of the two submodels
parameter_names == <<"errorbar", "acc_rate", "lag_a", "lag_b">>
\* self.ndim
ndim == Len(parameter_names)
\* self.nwalkers = self.ndim * 4
nwalkers == ndim * 4

\* largest offset of the random draws explored
MaxDraw == 2

\* the points the optimizer may return, one component per parameter
OptPoints == [1..ndim -> {-1, 0, 2}]

\* the guess handed to the optimizer: the errorbar, then the parameters of
\* the two submodels
guessParams(e, acc, lag) == <<e>> \o acc \o lag

\* np.random.randn(self.ndim) for each walker: draws that are non-zero and
\* pairwise distinct, of either sign
Draws ==
    { [w \in 1..nwalkers |-> [k \in 1..ndim |-> sgn * (o + ndim * (w - 1) + k)]] :
          o \in 0..MaxDraw, sgn \in {-1, 1} }

\* [optParams + 1e-3 * optParams * randn(ndim) for i in range(nwalkers)]
jitter(opt, r) ==
    [w \in 1..nwalkers |->
        [k \in 1..ndim |->
            RAdd(RInt(opt[k]),
                 RMul(RMul(Rat(1, 1000), RInt(opt[k])), RInt(r[w][k])))]]

\* the autocorrelation times sampler.get_autocorr_time may return, one per
\* parameter: steady at 0.03, 1/5000 above it, steady at 0.08, and 0.08 for
\* the first parameter only
TauVectors ==
    { [i \in 1..ndim |-> Rat(150, 5000)],
      [i \in 1..ndim |-> Rat(151, 5000)],
      [i \in 1..ndim |-> Rat(400, 5000)],
      [i \in 1..ndim |-> IF i = 1 THEN Rat(400, 5000) ELSE Rat(150, 5000)] }

\* old_tau = np.inf, as it compares with one tau per parameter
Inf == [i \in 1..ndim |-> NonFinite]

RAbs(a) == [n |-> Abs(a.n), d |-> a.d]

\* np.mean(tau)
np_mean(t) == RDiv(RSum(t, Len(t)), RInt(Len(t)))

\* a test that asks one parameter only to be past 50 autocorrelation times
converged_test_any(t, it, old) ==
    /\ \E i \in DOMAIN t : RLess(RMul(t[i], RInt(TauFactor)), RInt(it))
    /\ \A i \in DOMAIN t : RLess(RDiv(RAbs(RSub(old[i], t[i])), t[i]), Rat(1, 100))

\* converged = np.all(tau * 50 < iteration)
\* converged &= np.all(np.abs(old_tau - tau) / tau < 0.01)
\* (a difference to old_tau = np.inf is not finite, and compares false)
converged_test(t, it, old) ==
    /\ \A i \in DOMAIN t : RLess(RMul(t[i], RInt(TauFactor)), RInt(it))
    /\ \A i \in DOMAIN t : RLess(RDiv(RAbs(RSub(old[i], t[i])), t[i]), Rat(1, 100))

\* a loop entry whose record of mean tau is one entry short
LoopInit_short_autocorr(ms, si) ==
    /\ pc = "sampling"
    /\ maxSteps = ms
    /\ subIter = si
    /\ iteration = 0
    /\ index = 0
    /\ autocorr = [i \in 1..((ms \div si) - 1) |-> RInt(0)]
    /\ old_tau = Inf
    /\ tau = NoTau
    /\ converged = Undefined
    /\ attrs = McmcAttrs
    /\ chk = NoCheck
    /\ optParams = guessParams(errorbar, acc_params, lag_params)
    /\ initParams \in {jitter(optParams, r) : r \in {d \in Draws : d[1][1] = 1}}

\* the state when the loop is entered: index = 0, autocorr = zeros, old_tau = inf
LoopInit(ms, si) ==
    /\ pc = "sampling"
    /\ maxSteps = ms
    /\ subIter = si
    /\ iteration = 0
    /\ index = 0
    /\ autocorr = [i \in 1..(ms \div si) |-> RInt(0)]
    /\ old_tau = Inf
    /\ tau = NoTau
    /\ converged = Undefined
    /\ attrs = McmcAttrs
    /\ chk = NoCheck
    /\ optParams = guessParams(errorbar, acc_params, lag_params)
    /\ initParams \in {jitter(optParams, r) : r \in {d \in Draws : d[1][1] = 1}}

\* an iteration of the ensemble that is no multiple of subIter: continue
SampleSkip ==
    /\ pc = "sampling"
    /\ iteration < maxSteps
    /\ (iteration + 1) % subIter # 0
    /\ iteration' = iteration + 1
    /\ UNCHANGED <<pc, maxSteps, subIter, index, autocorr, old_tau, tau,
                   converged, attrs, chk>>
    /\ UNCHANGED <<troughVars, ctor, moved, histVars, ensVars>>

\* an iteration that is a multiple of subIter: estimate tau, record its mean,
\* test convergence, and break or remember tau
SampleCheck(t) ==
    /\ pc = "sampling"
    /\ iteration < maxSteps
    /\ (iteration + 1) % subIter = 0
    /\ iteration' = iteration + 1
    /\ tau' = t
    /\ chk' = [it |-> iteration', tau |-> t, prev |-> tau]
    /\ IF index + 1 \in DOMAIN autocorr
       THEN /\ autocorr' = [autocorr EXCEPT ![index + 1] = np_mean(t)]
            /\ index' = index + 1
            /\ converged' = IF converged_test(t, iteration', old_tau)
                            THEN "True" ELSE "False"
            /\ IF converged' = "True"
               THEN pc' = "done" /\ old_tau' = old_tau
               ELSE pc' = "sampling" /\ old_tau' = t
       ELSE /\ pc' = "IndexError"
            /\ UNCHANGED <<autocorr, index, converged, old_tau>>
    /\ UNCHANGED <<maxSteps, subIter, attrs>>
    /\ UNCHANGED <<troughVars, ctor, moved, histVars, ensVars>>

\* the sampler has run its maxSteps iterations: the loop ends
SampleExhausted ==
    /\ pc = "sampling"
    /\ iteration = maxSteps
    /\ pc' = "done"
    /\ UNCHANGED <<maxSteps, subIter, iteration, index, autocorr, old_tau,
                   tau, converged, attrs, chk>>
    /\ UNCHANGED <<troughVars, ctor, moved, histVars, ensVars>>

InitLoop ==
    /\ TroughInit(<<1>>, <<5, 1>>, 1, 37)
    /\ \E ms \in 0..MaxSteps, si \in 1..MaxSubIter : LoopInit(ms, si)

NextLoop ==
    \/ SampleSkip
    \/ \E t \in TauVectors : SampleCheck(t)
    \/ SampleExhausted

SpecLoop == InitLoop /\ [][NextLoop]_vars

\* the sampler yields its next iteration as long as one is left
LoopAdvance ==
    /\ pc = "sampling"
    /\ iteration < maxSteps
    /\ iteration' = iteration + 1

\* the loop is sequential code: the sampler keeps yielding iterations while
\* the loop runs, and the loop ends once the sampler is exhausted
SpecLoopFair ==
    SpecLoop /\ WF_iteration(LoopAdvance) /\ WF_vars(SampleExhausted)

(***************************************************************************)
(* Parameter estimator: optimization and ensemble initialization           *)
(***************************************************************************)
\* MCMC.__init__ has built the Trough and is about to optimize
EnsembleIdle ==
    /\ pc = "optimize"
    /\ maxSteps = MaxSteps
    /\ subIter = 1
    /\ iteration = 0
    /\ index = 0
    /\ autocorr = <<>>
    /\ old_tau = NoTau
    /\ tau = NoTau
    /\ converged = Undefined
    /\ attrs = McmcAttrs \ {"optParams", "initParams", "sampler"}
    /\ chk = NoCheck
    /\ optParams = <<>>
    /\ initParams = <<>>

\* optObj = op.minimize(self.neg_ln_likelihood, x0=guessParams, ...);
\* self.optParams = optObj['x']: x is the point the optimizer returns
Optimize(x) ==
    /\ pc = "optimize"
    /\ optParams' = x
    /\ attrs' = attrs \cup {"optParams"}
    /\ pc' = "jitter"
    /\ UNCHANGED <<maxSteps, subIter, iteration, index, autocorr, old_tau,
                   tau, converged, chk, initParams>>
    /\ UNCHANGED <<troughVars, ctor, moved, histVars>>

\* self.initParams = np.array([...]) with the draws r of np.random.randn
InitEnsemble(r) ==
    /\ pc = "jitter"
    /\ initParams' = jitter(optParams, r)
    /\ attrs' = attrs \cup {"initParams"}
    /\ pc' = "sampler"
    /\ UNCHANGED <<maxSteps, subIter, iteration, index, autocorr, old_tau,
                   tau, converged, chk, optParams>>
    /\ UNCHANGED <<troughVars, ctor, moved, histVars>>

InitEnsembleSpec ==
    /\ TroughInit(<<1>>, <<5, 1>>, 1, 37)
    /\ EnsembleIdle

NextEnsemble ==
    \/ \E x \in OptPoints : Optimize(x)
    \/ \E r \in Draws : InitEnsemble(r)

SpecEnsemble == InitEnsembleSpec /\ [][NextEnsemble]_vars

(***************************************************************************)
(* Properties of the ensemble initialization                               *)
(***************************************************************************)
\* C12: the initial ensemble has 4 walkers per parameter, and in no
\* parameter dimension do all walkers start at the same value
C12_EnsembleNotDegenerate ==
    pc = "sampler" =>
        /\ Len(initParams) = 4 * Len(parameter_names)
        /\ \A k \in 1..Len(parameter_names) :
              \E w1, w2 \in 1..Len(initParams) :
                  initParams[w1][k] # initParams[w2][k]

(***************************************************************************)
(* Properties of the sampling loop                                         *)
(***************************************************************************)
\* the convergence predicate at a check: the iteration exceeds 50 tau and tau
\* is within 1% of the estimate of the preceding check, for every parameter
ConvergedAt(c) ==
    /\ c.prev # NoTau
    /\ \A i \in 1..ndim :
          /\ 50 * c.tau[i].n < c.it * c.tau[i].d
          /\ c.prev[i].d > 0
          /\ 100 * Abs(c.prev[i].n * c.tau[i].d - c.tau[i].n * c.prev[i].d)
                 < c.tau[i].n * c.prev[i].d

\* C4: convergence is tested at the multiples of subIter and at all of them;
\* the loop goes on after a check exactly when the predicate failed there,
\* and stops before maxSteps only at a check where the predicate holds
C4_ConvergenceCheck ==
    /\ chk.it % subIter = 0
    /\ chk.it <= iteration
    /\ iteration - chk.it < subIter
    /\ (pc = "sampling" /\ chk # NoCheck) => ~ConvergedAt(chk)
    /\ (pc = "done" /\ chk # NoCheck /\ chk.it = iteration /\ ConvergedAt(chk))
           => converged = "True"
    /\ (pc = "done" /\ converged = "True")
           => (chk.it = iteration /\ ConvergedAt(chk))
    /\ (pc = "done" /\ iteration < maxSteps) => converged = "True"

\* C4 witness: the loop stopped before maxSteps at its third check or later,
\* on a tau that differs from the preceding estimate
C4_Witness ==
    /\ pc = "done"
    /\ converged = "True"
    /\ iteration < maxSteps
    /\ index >= 3
    /\ chk.prev # chk.tau

\* C5: when the loop has ended, a convergence indicator is defined and is an
\* attribute of the estimator, and it is true only if the predicate held at
\* the last check
C5_ConvergenceVisible ==
    pc = "done" =>
        /\ converged \in {"True", "False"}
        /\ "converged" \in attrs
        /\ converged = "True" => ConvergedAt(chk)

\* the loop has run no more than maxSteps iterations, has made one check per
\* full sub-interval, has written autocorr within its int(maxSteps / subIter)
\* entries only, and has stopped before maxSteps only on a converged check
LoopWithinBudget ==
    /\ pc \in {"sampling", "done"}
    /\ iteration <= maxSteps
    /\ index = iteration \div subIter
    /\ index <= maxSteps \div subIter
    /\ DOMAIN autocorr = 1..(maxSteps \div subIter)
    /\ \A i \in DOMAIN autocorr : i > index => autocorr[i] = RInt(0)
    /\ (pc = "done" /\ iteration < maxSteps)
           => (chk.it = iteration /\ ConvergedAt(chk))

\* C13: for every maxSteps >= 0 and subIter >= 1 the sampling loop stays
\* within its budget of iterations and checks, never writes autocorr outside
\* its length, and terminates
C13_LoopTerminates ==
    /\ []LoopWithinBudget
    /\ <>(pc = "done")

\* C13 witness: the budget was exhausted after the last of at least two
\* checks, with iterations left over after that check
C13_Witness ==
    /\ pc = "done"
    /\ iteration = maxSteps
    /\ maxSteps % subIter # 0
    /\ index = maxSteps \div subIter
    /\ index >= 2
    /\ converged = "False"

=============================================================================
